---------------------------- MODULE Spec2Model ----------------------------
(***************************************************************************)
(* Model of the PDF resolution and acquisition pipeline of                 *)
(* download_citation_pdfs.py (main and the functions it calls) and of the  *)
(* title normalisation of Query_cited_articles.py.                         *)
(*                                                                         *)
(* Python values.  A str is a sequence of one-character strings, so that   *)
(* startswith, endswith, "in", split, lower and slicing are computed as    *)
(* the code computes them.  None is the one-element sequence <<"None">>,   *)
(* which no str equals because every element of a str is one character.    *)
(* Texts whose characters the code never inspects (exception messages,     *)
(* failure reasons) are sequences of message fragments, joined by \o.      *)
(***************************************************************************)
EXTENDS Integers, Sequences, FiniteSets, TLC

\* ------------------------------------------------------------------ bounds

\* Number of records of citing_articles that the runs of main() read, all
\* runs together.
MaxArticles == 2
\* Number of times main() is started (a later start follows a run that
\* ended, raised or was killed).
MaxRuns == 2
\* Largest --max-results of the citation queries.
MaxResults == 2
\* Largest number of citing articles on one page of an API answer.
MaxPageLen == 2
\* Number of 429 answers that one citation query gets.
MaxRetries == 2

\* ------------------------------------------------------- values and strings

None == <<"None">>
Empty == <<>>

\* Python truthiness of a str-or-None value: None and "" are falsy.
Truthy(v) == v # None /\ v # Empty

\* a or b
Or(a, b) == IF Truthy(a) THEN a ELSE b

StartsWith(s, p) == Len(s) >= Len(p) /\ SubSeq(s, 1, Len(p)) = p

EndsWith(s, p) == Len(s) >= Len(p) /\ SubSeq(s, Len(s) - Len(p) + 1, Len(s)) = p

\* sub in s
Contains(s, sub) ==
    \E i \in 1..(Len(s) - Len(sub) + 1) : SubSeq(s, i, i + Len(sub) - 1) = sub

\* s.find(sub), 1-based; 0 when sub does not occur
Find(s, sub) ==
    IF Contains(s, sub)
    THEN CHOOSE i \in 1..(Len(s) - Len(sub) + 1) :
            /\ SubSeq(s, i, i + Len(sub) - 1) = sub
            /\ \A j \in 1..(i - 1) : SubSeq(s, j, j + Len(sub) - 1) # sub
    ELSE 0

\* s.split(sep): the list of the parts of s between the occurrences of sep
RECURSIVE Split(_, _)
Split(s, sep) ==
    LET i == Find(s, sep)
    IN  IF i = 0 THEN <<s>>
        ELSE <<SubSeq(s, 1, i - 1)>> \o Split(SubSeq(s, i + Len(sep), Len(s)), sep)

\* s.split(sep, maxsplit)
RECURSIVE SplitMax(_, _, _)
SplitMax(s, sep, maxsplit) ==
    LET i == Find(s, sep)
    IN  IF i = 0 \/ maxsplit = 0 THEN <<s>>
        ELSE <<SubSeq(s, 1, i - 1)>>
             \o SplitMax(SubSeq(s, i + Len(sep), Len(s)), sep, maxsplit - 1)

\* sep.join(parts)
RECURSIVE Join(_, _)
Join(parts, sep) ==
    IF parts = <<>> THEN <<>>
    ELSE IF Len(parts) = 1 THEN parts[1]
    ELSE parts[1] \o sep \o Join(Tail(parts), sep)

\* s.replace(old, "") for a one-character old
RECURSIVE RemoveChar(_, _)
RemoveChar(s, c) ==
    IF s = <<>> THEN <<>>
    ELSE (IF Head(s) = c THEN <<>> ELSE <<Head(s)>>) \o RemoveChar(Tail(s), c)

Digits == {"0", "1", "2", "3", "4", "5", "6", "7", "8", "9"}

LowerLetters == {"a", "b", "c", "d", "e", "f", "g", "h", "i", "j", "k", "l", "m",
                 "n", "o", "p", "q", "r", "s", "t", "u", "v", "w", "x", "y", "z"}

UpperLetters == {"A", "B", "I", "J", "R", "X"}

\* str.isdigit(): non-empty and every character a digit
IsDigit(s) == s # <<>> /\ \A i \in 1..Len(s) : s[i] \in Digits

\* char.isalnum()
IsAlnum(c) == c \in Digits \cup LowerLetters \cup UpperLetters

\* char.lower()
LowerChar(c) ==
    CASE c = "A" -> "a"
      [] c = "B" -> "b"
      [] c = "I" -> "i"
      [] c = "J" -> "j"
      [] c = "R" -> "r"
      [] c = "X" -> "x"
      [] OTHER -> c

\* s.lower()
Lower(s) == [i \in 1..Len(s) |-> LowerChar(s[i])]

\* ''.join(char.lower() for char in title if char.isalnum())
RECURSIVE LowerAlnum(_)
LowerAlnum(s) ==
    IF s = <<>> THEN <<>>
    ELSE (IF IsAlnum(Head(s)) THEN <<LowerChar(Head(s))>> ELSE <<>>)
         \o LowerAlnum(Tail(s))

\* normalize_title of Query_cited_articles.py
normalize_title(title) == IF ~Truthy(title) THEN Empty ELSE LowerAlnum(title)


\* --------------------------------------------------------- string constants

HTTP == <<"h","t","t","p">>
HTTPS_SCHEME == <<"h","t","t","p","s",":","/","/">>
DOT_PDF == <<".","p","d","f">>
SLASH_PDF == <<"/","p","d","f">>
SLASH == <<"/">>
DOUBLE_SLASH == <<"/","/">>
DOT == "."
ARXIV == <<"a","r","x","i","v">>
BIORXIV == <<"b","i","o","r","x","i","v">>
ARXIV_ORG == <<"a","r","x","i","v",".","o","r","g">>
ARXIV_DOI_PREFIX == <<"1","0",".","4","8","5","5","0","/","a","r","X","i","v",".">>
ARXIV_DOI_SEP == <<"a","r","X","i","v",".">>
BIORXIV_DOI_PREFIX == <<"1","0",".","1","1","0","1","/">>
ARXIV_PDF_BASE == <<"h","t","t","p","s",":","/","/","a","r","x","i","v",".","o","r","g","/","p","d","f","/">>
BIORXIV_CONTENT_BASE == <<"h","t","t","p","s",":","/","/","w","w","w",".","b","i","o","r","x","i","v",".","o","r","g","/","c","o","n","t","e","n","t","/">>
FULL_PDF == <<"/","f","u","l","l",".","p","d","f">>
SEMANTIC_SCHOLAR_BASE == <<"h","t","t","p","s",":","/","/","w","w","w",".","s","e","m","a","n","t","i","c","s","c","h","o","l","a","r",".","o","r","g">>
DOI_ORG == <<"h","t","t","p","s",":","/","/","d","o","i",".","o","r","g","/">>

\* "No PDF found (may be paywalled or unavailable)"
NO_PDF_REASON == <<"No PDF found (may be paywalled or unavailable)">>
\* "PDF not found after Selenium download"
SELENIUM_NOT_FOUND == <<"PDF not found after Selenium download">>
SELENIUM_SEP == <<" | Selenium: ">>

\* str(e) of the exceptions the external calls raise
HTTP_ERROR == <<"HTTPError">>
CONNECTION_ERROR == <<"ConnectionError">>
OS_ERROR == <<"OSError">>
WEBDRIVER_ERROR == <<"WebDriverException">>

\* ------------------------------------------------------------ input values

DoiBiorxiv == <<"1","0",".","1","1","0","1","/","1">>
DoiArxiv == <<"1","0",".","4","8","5","5","0","/","a","r","X","i","v",".","1">>
Dois == {DoiBiorxiv, DoiArxiv}

TitleA == <<"A","b","!">>
TitleB == <<"a","b">>
TitleC == <<"c"," ","d">>
Titles == {TitleA, TitleB, TitleC}

\* article["authors"]: absent, a str, or a (non-empty) list of names
AuthorsKinds == {"absent", "str", "list"}

\* article["venue"]: the key absent, null, or a str
Absent == <<"Absent">>
VenueArxiv == <<"a","r","X","i","v">>
VenueBiorxiv == <<"b","i","o","R","x","i","v">>
VenueJournal == <<"J","B","I">>
Venues == {Absent, None, VenueArxiv, VenueBiorxiv, VenueJournal}

UrlS2 == <<"h","t","t","p",":","/","/","s","2",".","o","r","g","/","p">>
UrlArxivAbs == <<"h","t","t","p",":","/","/","a","r","x","i","v",".","o","r","g","/","a","b","s","/","1",".","2">>
UrlLanding == <<"h","t","t","p",":","/","/","p",".","o","r","g","/","a">>
UrlPdf == <<"h","t","t","p",":","/","/","a",".","o","r","g","/","x",".","p","d","f">>
UrlFtp == <<"f","t","p",":","/","/","a","/","x",".","p","d","f">>
UrlPublisher == <<"h","t","t","p","s",":","/","/","q",".","o","r","g","/","a">>
HrefAbout == <<"/","a","b","o","u","t">>
HrefRelPdf == <<"/","c","/","x",".","p","d","f">>
HrefBarePdf == <<"x",".","p","d","f">>

\* article["url"] and article["pub_url"]
SemanticUrls == {None, UrlS2, UrlArxivAbs}
PubUrls == {None, UrlLanding}


\* ------------------------------------------------ outcomes of external calls

\* CrossRef: the request fails, or the answer lists no item, or its first
\* item carries a DOI (or none).
CrossrefResponses ==
    {[status |-> "error", items |-> <<>>], [status |-> "ok", items |-> <<>>]}
    \cup {[status |-> "ok", items |-> <<[DOI |-> d]>>] : d \in Dois \cup {None}}

\* Unpaywall: best is best_oa_location's url_for_pdf (None without a best
\* location), locs the url_for_pdf of each of oa_locations.
UnpaywallResponses ==
    {[status |-> "error", best |-> None, locs |-> <<>>]}
    \cup {[status |-> "ok", best |-> b, locs |-> l] :
            b \in {None, Empty, UrlPdf, UrlFtp}, l \in {<<>>, <<None, UrlPdf>>}}

\* The hrefs of the anchors of a fetched page, in document order.
Pages ==
    {<<>>, <<HrefAbout>>, <<HrefAbout, UrlPdf>>, <<HrefRelPdf, UrlPdf>>, <<HrefBarePdf>>}

\* A plain HTTP fetch of a page: url is the final location (r.url).
PageResponses ==
    {[status |-> "error", url |-> None, hrefs |-> <<>>]}
    \cup {[status |-> "ok", url |-> UrlPublisher, hrefs |-> h] : h \in Pages}

\* A browser session of get_pdf_link_from_publisher_page: the launch, the
\* cookie injection and the page load each succeed or raise.
BrowserOutcomes ==
    {[launch |-> "raise", cookies |-> "ok", get |-> "ok", url |-> None, hrefs |-> <<>>],
     [launch |-> "ok", cookies |-> "raise", get |-> "ok", url |-> None, hrefs |-> <<>>],
     [launch |-> "ok", cookies |-> "ok", get |-> "raise", url |-> None, hrefs |-> <<>>]}
    \cup {[launch |-> "ok", cookies |-> "ok", get |-> "ok", url |-> UrlPublisher,
           hrefs |-> h] : h \in Pages}

\* What wait.until gives for one selector: a timeout, or the href of the
\* element found.
Timeout == <<"Timeout">>
SelectorResults == {Timeout, None, UrlLanding, UrlPdf}

\* A browser session of scrape_pdf_with_selenium: sel holds the result of
\* each of the two selectors, debug the write of the .debug.html file.
ScrapeOutcomes ==
    {[launch |-> "raise", cookies |-> "ok", get |-> "ok", sel |-> <<Timeout, Timeout>>,
      debug |-> "ok"],
     [launch |-> "ok", cookies |-> "raise", get |-> "ok", sel |-> <<Timeout, Timeout>>,
      debug |-> "ok"],
     [launch |-> "ok", cookies |-> "ok", get |-> "raise", sel |-> <<Timeout, Timeout>>,
      debug |-> "ok"]}
    \cup {[launch |-> "ok", cookies |-> "ok", get |-> "ok", sel |-> <<a, b>>, debug |-> d] :
            a \in SelectorResults, b \in SelectorResults, d \in {"ok", "raise"}}

\* --------------------------------------------------------------- resolvers

\* get_domain_from_url: url.split("//")[1].split("/")[0], None on any error
get_domain_from_url(url) ==
    IF url = None THEN None
    ELSE LET parts == Split(url, DOUBLE_SLASH)
         IN  IF Len(parts) < 2 THEN None ELSE Split(parts[2], SLASH)[1]

\* _load_cookies_into_driver: TRUE when it raises (driver.get of the domain
\* or driver.add_cookie fails); it touches the browser only for a url that
\* has a domain.
load_cookies_raises(url, outcome) ==
    Truthy(get_domain_from_url(url)) /\ outcome = "raise"

\* get_doi_from_crossref.  authors.split is called outside the try block.
get_doi_from_crossref(title, authors, resp) ==
    IF authors = "list"
    THEN [raised |-> TRUE, value |-> None, net |-> 0]
    ELSE [raised |-> FALSE,
          value |-> IF resp.status = "ok" /\ resp.items # <<>>
                    THEN resp.items[1].DOI ELSE None,
          net |-> 1]

\* index of the first truthy element of a list, 0 when there is none
FirstTruthy(l) ==
    IF \E i \in 1..Len(l) : Truthy(l[i])
    THEN CHOOSE i \in 1..Len(l) : Truthy(l[i]) /\ \A j \in 1..(i - 1) : ~Truthy(l[j])
    ELSE 0

get_pdf_link_from_unpaywall(doi, resp) ==
    [value |-> IF resp.status = "error" THEN None
               ELSE IF Truthy(resp.best) THEN resp.best
               ELSE IF FirstTruthy(resp.locs) # 0 THEN resp.locs[FirstTruthy(resp.locs)]
               ELSE resp.best,
     net |-> 1]

\* href.endswith(".pdf") or "/pdf" in href
IsPdfHref(href) == EndsWith(href, DOT_PDF) \/ Contains(href, SLASH_PDF)

\* index of the first PDF-like href of a page, 0 when there is none
FirstPdfHref(hrefs) ==
    IF \E i \in 1..Len(hrefs) : IsPdfHref(hrefs[i])
    THEN CHOOSE i \in 1..Len(hrefs) :
            IsPdfHref(hrefs[i]) /\ \A j \in 1..(i - 1) : ~IsPdfHref(hrefs[j])
    ELSE 0

\* "/".join(url.split("/", 3)[0:3])
SchemeAndHost(url) ==
    LET parts == SplitMax(url, SLASH, 3)
    IN  Join(SubSeq(parts, 1, IF Len(parts) < 3 THEN Len(parts) ELSE 3), SLASH)

\* the loop over the anchors of a page fetched from page_url
ScrapeAnchors(hrefs, base) ==
    LET i == FirstPdfHref(hrefs)
    IN  IF i = 0 THEN None
        ELSE IF StartsWith(hrefs[i], SLASH) THEN base \o hrefs[i]
        ELSE hrefs[i]

get_pdf_link_from_semanticscholar(semantic_url, resp) ==
    IF ~Truthy(semantic_url) \/ ~StartsWith(semantic_url, HTTP)
    THEN [value |-> None, net |-> 0]
    ELSE [value |-> IF resp.status = "error" THEN None
                    ELSE ScrapeAnchors(resp.hrefs, SEMANTIC_SCHOLAR_BASE),
          net |-> 1]

\* the first part of url.split("/") that is a number once its dots are
\* removed; None when there is none
ArxivIdOf(url) ==
    LET parts == Split(url, SLASH)
        IsId(p) == IsDigit(RemoveChar(p, DOT))
    IN  IF \E i \in 1..Len(parts) : IsId(parts[i])
        THEN parts[CHOOSE i \in 1..Len(parts) :
                      IsId(parts[i]) /\ \A j \in 1..(i - 1) : ~IsId(parts[j])]
        ELSE None

\* doi.split('arXiv.')[-1]
AfterArxiv(doi) == LET parts == Split(doi, ARXIV_DOI_SEP) IN parts[Len(parts)]

\* get_pdf_link_from_arxiv_biorxiv.  article.get("venue", "") is None for a
\* null venue, and None has no lower(): the call raises.  resp1 and resp2
\* answer the CrossRef lookups of the arXiv and of the bioRxiv branch.
get_pdf_link_from_arxiv_biorxiv(article, resp1, resp2) ==
    IF article.venue = None
    THEN [raised |-> TRUE, value |-> None, net |-> 0]
    ELSE
    LET venue == Lower(IF article.venue = Absent THEN Empty ELSE article.venue)
        url == article.url
        byUrl == IF Contains(venue, ARXIV) /\ Truthy(url) /\ Contains(url, ARXIV_ORG)
                 THEN ArxivIdOf(url) ELSE None
        lookup1 == Contains(venue, ARXIV) /\ byUrl = None
        doi1 == get_doi_from_crossref(article.title, "absent", resp1).value
        byDoi1 == IF lookup1 /\ Truthy(doi1) /\ StartsWith(doi1, ARXIV_DOI_PREFIX)
                  THEN ARXIV_PDF_BASE \o AfterArxiv(doi1) \o DOT_PDF ELSE None
        lookup2 == Contains(venue, BIORXIV) /\ byUrl = None /\ byDoi1 = None
        doi2 == get_doi_from_crossref(article.title, "absent", resp2).value
        byDoi2 == IF lookup2 /\ Truthy(doi2) /\ StartsWith(doi2, BIORXIV_DOI_PREFIX)
                  THEN BIORXIV_CONTENT_BASE \o doi2 \o FULL_PDF ELSE None
    IN  [raised |-> FALSE,
         value |-> IF byUrl # None THEN ARXIV_PDF_BASE \o byUrl \o DOT_PDF
                   ELSE IF byDoi1 # None THEN byDoi1
                   ELSE byDoi2,
         net |-> (IF lookup1 THEN 1 ELSE 0) + (IF lookup2 THEN 1 ELSE 0)]


\* the plain HTTP part of get_pdf_link_from_publisher_page
PublisherPlainScrape(resp) ==
    IF resp.status = "error" THEN None
    ELSE ScrapeAnchors(resp.hrefs, SchemeAndHost(resp.url))

\* get_pdf_link_from_publisher_page: the plain fetch of https://doi.org/<doi>,
\* then, when that gave nothing, the same page in a browser session.  The
\* except clause of the browser part does not quit the driver.
get_pdf_link_from_publisher_page(doi, resp, br) ==
    LET doi_url == DOI_ORG \o doi
        plain == PublisherPlainScrape(resp)
    IN  IF plain # None
        THEN [value |-> plain, net |-> 1, browser |-> FALSE, brw |-> 0,
              opened |-> 0, quitted |-> 0]
        ELSE IF br.launch = "raise"
        THEN [value |-> None, net |-> 1, browser |-> TRUE, brw |-> 1,
              opened |-> 0, quitted |-> 0]
        ELSE IF load_cookies_raises(doi_url, br.cookies) \/ br.get = "raise"
        THEN [value |-> None, net |-> 1, browser |-> TRUE, brw |-> 2,
              opened |-> 1, quitted |-> 0]
        ELSE [value |-> ScrapeAnchors(br.hrefs, SchemeAndHost(br.url)), net |-> 1,
              browser |-> TRUE, brw |-> 3, opened |-> 1, quitted |-> 1]

\* s[:k]
Prefix(s, k) == SubSeq(s, 1, IF Len(s) < k THEN Len(s) ELSE k)

\* index of the first selector whose element has an href containing ".pdf"
FirstPdfElement(sel) ==
    LET hit(i) == sel[i] # Timeout /\ Truthy(sel[i]) /\ Contains(sel[i], DOT_PDF)
    IN  IF \E i \in 1..Len(sel) : hit(i)
        THEN CHOOSE i \in 1..Len(sel) : hit(i) /\ \A j \in 1..(i - 1) : ~hit(j)
        ELSE 0

\* scrape_pdf_with_selenium: every path after the launch quits the driver.
scrape_pdf_with_selenium(url, filename, o) ==
    IF o.launch = "raise"
    THEN [value |-> None, brw |-> 1, opened |-> 0, quitted |-> 0]
    ELSE IF load_cookies_raises(url, o.cookies) \/ o.get = "raise"
    THEN [value |-> None, brw |-> 2, opened |-> 1, quitted |-> 1]
    ELSE LET i == FirstPdfElement(o.sel)
         IN  [value |-> IF i # 0 THEN o.sel[i] ELSE None,
              brw |-> 3, opened |-> 1, quitted |-> 1]

\* ------------------------------------------------------------- acquisition

\* for _ in range(60)
POLL_LIMIT == 60

\* A direct transfer of download_pdf: the request raises, or answers with a
\* status and a body (marker: it contains "Just a moment..."); write is the
\* write of the body to the destination file.
DirectResponses ==
    {[kind |-> "raise", status |-> 0, marker |-> FALSE, write |-> "ok"]}
    \cup {[kind |-> "resp", status |-> st, marker |-> m, write |-> "ok"] :
            st \in {200, 304, 403, 404}, m \in BOOLEAN}
    \cup {[kind |-> "resp", status |-> 200, marker |-> FALSE, write |-> "raise"]}

\* A session of download_pdf_selenium.  appears: the poll at which a new
\* .pdf is listed in the download directory (0: never); url: the session's
\* current_url; refetch: the transfer with the session's cookies raises,
\* answers 200 with a PDF content type, or answers anything else.
SeleniumOutcomes ==
    {[launch |-> "raise", cookies |-> "ok", get |-> "ok", appears |-> 0, rename |-> "ok",
      url |-> UrlPdf, refetch |-> "other", write |-> "ok"],
     [launch |-> "ok", cookies |-> "raise", get |-> "ok", appears |-> 0, rename |-> "ok",
      url |-> UrlPdf, refetch |-> "other", write |-> "ok"],
     [launch |-> "ok", cookies |-> "ok", get |-> "raise", appears |-> 0, rename |-> "ok",
      url |-> UrlPdf, refetch |-> "other", write |-> "ok"]}
    \cup {[launch |-> "ok", cookies |-> "ok", get |-> "ok", appears |-> a, rename |-> r,
           url |-> UrlPdf, refetch |-> "other", write |-> "ok"] :
            a \in {1, POLL_LIMIT}, r \in {"ok", "raise"}}
    \cup {[launch |-> "ok", cookies |-> "ok", get |-> "ok", appears |-> a, rename |-> "ok",
           url |-> UrlLanding, refetch |-> "other", write |-> "ok"] :
            a \in {0, POLL_LIMIT + 1}}
    \cup {[launch |-> "ok", cookies |-> "ok", get |-> "ok", appears |-> 0, rename |-> "ok",
           url |-> UrlPdf, refetch |-> f, write |-> w] :
            f \in {"raise", "pdf", "other"}, w \in {"ok", "raise"}}

\* "while not found_pdf": the directory is polled until a file appears
\* (more than POLL_LIMIT polls when none appears in time)
Polls_until_found(appears) == IF appears >= 1 THEN appears ELSE POLL_LIMIT + 1

\* "for _ in range(60)": the number of polls of the download directory when
\* a new .pdf is listed at poll number appears (0: never)
Polls(appears) == IF appears \in 1..POLL_LIMIT THEN appears ELSE POLL_LIMIT

\* The try block of download_pdf_selenium, after the launch.  exc: it ended
\* in the except clause.
SeleniumTry(pdf_url, o) ==
    IF load_cookies_raises(pdf_url, o.cookies) \/ o.get = "raise"
    THEN [success |-> FALSE, reason |-> WEBDRIVER_ERROR, exc |-> TRUE, polls |-> 0,
          net |-> 0]
    ELSE
    LET found == o.appears \in 1..POLL_LIMIT
        polls == Polls(o.appears)
    IN  IF found
        THEN IF o.rename = "raise"
             THEN [success |-> FALSE, reason |-> OS_ERROR, exc |-> TRUE, polls |-> polls,
                   net |-> 0]
             ELSE [success |-> TRUE, reason |-> None, exc |-> FALSE, polls |-> polls,
                   net |-> 0]
        ELSE IF StartsWith(o.url, HTTP) /\ EndsWith(o.url, DOT_PDF)
        THEN IF o.refetch = "raise"
             THEN [success |-> FALSE, reason |-> CONNECTION_ERROR, exc |-> TRUE,
                   polls |-> polls, net |-> 1]
             ELSE IF o.refetch = "pdf"
             THEN IF o.write = "raise"
                  THEN [success |-> FALSE, reason |-> OS_ERROR, exc |-> TRUE,
                        polls |-> polls, net |-> 1]
                  ELSE [success |-> TRUE, reason |-> None, exc |-> FALSE,
                        polls |-> polls, net |-> 1]
             ELSE [success |-> FALSE, reason |-> SELENIUM_NOT_FOUND, exc |-> FALSE,
                   polls |-> polls, net |-> 1]
        ELSE [success |-> FALSE, reason |-> SELENIUM_NOT_FOUND, exc |-> FALSE,
              polls |-> polls, net |-> 0]

\* download_pdf_selenium without its finally clause: the driver is quit on
\* the returns of the try block only.
download_pdf_selenium_no_finally(pdf_url, filename, o) ==
    IF o.launch = "raise"
    THEN [raised |-> TRUE, success |-> FALSE, reason |-> WEBDRIVER_ERROR, polls |-> 0,
          net |-> 0, opened |-> 0, quitted |-> 0]
    ELSE LET t == SeleniumTry(pdf_url, o)
         IN  [raised |-> FALSE, success |-> t.success, reason |-> t.reason,
              polls |-> t.polls, net |-> t.net, opened |-> 1,
              quitted |-> IF t.exc THEN 0 ELSE 1]

\* download_pdf_selenium.  The launch is outside the try block: when it
\* raises, the exception leaves the function and no session was opened.
\* After the launch, finally quits the driver on every path.
download_pdf_selenium(pdf_url, filename, o) ==
    IF o.launch = "raise"
    THEN [raised |-> TRUE, success |-> FALSE, reason |-> WEBDRIVER_ERROR, polls |-> 0,
          net |-> 0, opened |-> 0, quitted |-> 0]
    ELSE LET t == SeleniumTry(pdf_url, o)
         IN  [raised |-> FALSE, success |-> t.success, reason |-> t.reason,
              polls |-> t.polls, net |-> t.net, opened |-> 1, quitted |-> 1]

\* r.status_code == 403 or b"Just a moment..." in r.content
Blocked(r) == r.kind = "resp" /\ (r.status = 403 \/ r.marker)

\* r.raise_for_status() raises: requests raises HTTPError for the client and
\* server error statuses, 400 to 599, and for no other status
RaisesForStatus(status) == status \in 400..599

\* the direct transfer ends in the except clause of download_pdf with str(e),
\* or None when it does not (for a blocked answer: when the browser attempt
\* made inside the try block raises)
DirectError(r, first) ==
    IF r.kind = "raise" THEN CONNECTION_ERROR
    ELSE IF Blocked(r) THEN (IF first.raised THEN WEBDRIVER_ERROR ELSE None)
    ELSE IF RaisesForStatus(r.status) THEN HTTP_ERROR
    ELSE IF r.write = "raise" THEN OS_ERROR
    ELSE None

\* the except clause returning str(e) + " | Selenium: ..." on both branches
FallbackReason_always(e, fallback) == e \o SELENIUM_SEP \o fallback.reason

\* The second value the except clause of download_pdf returns: None when the
\* browser attempt succeeded, else str(e) + " | Selenium: {fail_reason}".
FallbackReason(e, fallback) ==
    IF fallback.success THEN None ELSE e \o SELENIUM_SEP \o fallback.reason

\* download_pdf: r answers the direct transfer, s1 and s2 the first and the
\* second call of download_pdf_selenium.  A blocked answer calls
\* download_pdf_selenium inside the try block, so an exception of that call
\* is caught by the except clause, which calls download_pdf_selenium again.
download_pdf(pdf_url, filename, r, s1, s2) ==
    LET first == download_pdf_selenium(pdf_url, filename, s1)
        e == DirectError(r, first)
        inTry == Blocked(r)
        fallback == download_pdf_selenium(pdf_url, filename, IF inTry THEN s2 ELSE s1)
        calls == (IF inTry THEN 1 ELSE 0) + (IF e # None THEN 1 ELSE 0)
        Sum(f(_)) == (IF inTry THEN f(first) ELSE 0) + (IF e # None THEN f(fallback) ELSE 0)
        Net(x) == x.net
        Polled(x) == x.polls
        Opened(x) == x.opened
        Quitted(x) == x.quitted
    IN  [raised |-> e # None /\ fallback.raised,
         success |-> IF e = None
                     THEN (IF inTry THEN first.success ELSE TRUE)
                     ELSE fallback.success,
         reason |-> IF e = None
                    THEN (IF inTry /\ ~first.success THEN first.reason ELSE None)
                    ELSE FallbackReason(e, fallback),
         direct |-> 1,
         wrote |-> ~inTry /\ e = None,
         polls |-> Sum(Polled),
         selenium |-> calls,
         status |-> IF r.kind = "resp" THEN r.status ELSE 0,
         net |-> 1 + Sum(Net),
         opened |-> Sum(Opened),
         quitted |-> Sum(Quitted)]


\* ------------------------------------------------------------------ ledger

\* A dict is the sequence of its items, in insertion order.
DictHas(d, k) == \E i \in 1..Len(d) : d[i].key = k

DictIndex(d, k) == CHOOSE i \in 1..Len(d) : d[i].key = k

\* d[k] = v
DictSet(d, k, v) ==
    IF DictHas(d, k)
    THEN [d EXCEPT ![DictIndex(d, k)] = [key |-> k, value |-> v]]
    ELSE Append(d, [key |-> k, value |-> v])

\* list(d.values())
DictValues(d) == [i \in 1..Len(d) |-> d[i].value]

\* log_dict.get(log_key, {}).get("downloaded", False)
AlreadyDownloaded(d, k) == DictHas(d, k) /\ d[DictIndex(d, k)].value.downloaded

\* The ledger file: missing, not JSON ("invalid": also an empty or a partly
\* written file), JSON that is no list, or a JSON list of items.  An item is
\* an entry object or, in a file not written by main(), something else.
NotAnObject == [json |-> "number"]
IsObject(item) == "title" \in DOMAIN item

FileMissing == [kind |-> "missing", items |-> <<>>]
FileInvalid == [kind |-> "invalid", items |-> <<>>]
FileOf(values) == [kind |-> "list", items |-> values]

\* a ledger that an earlier use of the program left: one downloaded work
EarlierLedger ==
    FileOf(<<[title |-> TitleC, doi |-> DoiBiorxiv, pdf_url |-> UrlPdf,
              downloaded |-> TRUE, fail_reason |-> None]>>)

\* the ledger files main() may find that this model's runs did not write
ForeignFiles ==
    {FileMissing, FileInvalid, FileOf(<<>>), FileOf(<<NotAnObject>>), EarlierLedger,
     [kind |-> "null", items |-> <<>>], [kind |-> "number", items |-> <<>>],
     [kind |-> "object", items |-> <<>>]}

\* {(entry.get("doi") or entry.get("title")): entry for entry in log_list}
RECURSIVE DictOfEntries(_)
DictOfEntries(items) ==
    IF items = <<>> THEN <<>>
    ELSE LET entry == items[Len(items)]
         IN  DictSet(DictOfEntries(SubSeq(items, 1, Len(items) - 1)),
                     Or(entry.doi, entry.title), entry)

\* the file holds a JSON list whose items are all objects
IsListOfObjects(file) ==
    file.kind = "list" /\ \A i \in 1..Len(file.items) : IsObject(file.items[i])

\* load_download_log_dict with "except json.JSONDecodeError" in place of
\* "except Exception": JSON that is no list of objects raises.
load_download_log_dict_narrow_except(file) ==
    IF file.kind \in {"missing", "invalid"} THEN [raised |-> FALSE, dict |-> <<>>]
    ELSE IF ~IsListOfObjects(file) THEN [raised |-> TRUE, dict |-> <<>>]
    ELSE [raised |-> FALSE, dict |-> DictOfEntries(file.items)]

\* load_download_log_dict: a missing file gives {}; json.load of a file that
\* is not JSON, the iteration over JSON that is no list, and entry.get on an
\* item that is no object raise inside the try block, which gives {}.
load_download_log_dict(file) ==
    IF file.kind = "missing" THEN [raised |-> FALSE, dict |-> <<>>]
    ELSE IF file.kind = "invalid" THEN [raised |-> FALSE, dict |-> <<>>]
    ELSE IF ~IsListOfObjects(file) THEN [raised |-> FALSE, dict |-> <<>>]
    ELSE [raised |-> FALSE, dict |-> DictOfEntries(file.items)]


\* -------------------------------------------------------------------- main

\* the records of citing_articles: without and with a DOI, titles that differ
\* and titles that differ in case and punctuation only, authors as a str, as
\* a list and absent, the venue absent, null, a journal and a preprint
\* server, with and without a detail URL and a landing page
Article(t, a, v, u, p, d) ==
    [title |-> t, authors |-> a, venue |-> v, url |-> u, pub_url |-> p, doi |-> d]

Articles ==
    {Article(TitleA, "str", Absent, None, None, None),
     Article(TitleB, "str", VenueJournal, None, UrlLanding, None),
     Article(TitleC, "str", VenueJournal, UrlS2, UrlLanding, DoiBiorxiv),
     Article(TitleC, "list", Absent, None, None, None),
     Article(TitleB, "list", None, None, UrlLanding, DoiBiorxiv),
     Article(TitleA, "absent", VenueArxiv, UrlArxivAbs, None, None),
     Article(TitleB, "str", VenueArxiv, UrlS2, None, DoiArxiv),
     Article(TitleC, "absent", VenueBiorxiv, None, None, None)}

NoArticle ==
    [title |-> None, authors |-> "absent", venue |-> Absent, url |-> None,
     pub_url |-> None, doi |-> None]

\* the outcomes that stand for a browser that is not used
NotCalled == CHOOSE o \in SeleniumOutcomes : o.launch = "raise"

NoBrowser == CHOOSE b \in BrowserOutcomes : b.launch = "raise"

\* the typical inputs: a record without DOI, one whose title differs from it
\* in case and punctuation only, one with a DOI, and another work with the
\* title of that one and a DOI of its own (a preprint and its journal
\* version); each external call fails or succeeds in one way
ArticlesTypical ==
    {Article(TitleA, "str", Absent, None, None, None),
     Article(TitleB, "str", VenueJournal, None, UrlLanding, None),
     Article(TitleC, "str", VenueJournal, UrlS2, UrlLanding, DoiBiorxiv),
     Article(TitleC, "str", Absent, None, None, DoiArxiv)}

CrossrefTypical ==
    {[status |-> "error", items |-> <<>>],
     [status |-> "ok", items |-> <<[DOI |-> DoiBiorxiv]>>]}

UnpaywallTypical ==
    {[status |-> "error", best |-> None, locs |-> <<>>],
     [status |-> "ok", best |-> UrlPdf, locs |-> <<>>]}

PageTypical == {[status |-> "ok", url |-> UrlPublisher, hrefs |-> <<HrefAbout>>]}

BrowserTypical ==
    {[launch |-> "ok", cookies |-> "ok", get |-> "raise", url |-> None, hrefs |-> <<>>],
     [launch |-> "ok", cookies |-> "ok", get |-> "ok", url |-> UrlPublisher,
      hrefs |-> <<HrefAbout>>]}

ScrapeTypical ==
    {[launch |-> "ok", cookies |-> "ok", get |-> "ok", sel |-> <<Timeout, UrlPdf>>,
      debug |-> "ok"],
     [launch |-> "ok", cookies |-> "ok", get |-> "ok", sel |-> <<Timeout, Timeout>>,
      debug |-> "ok"]}

DirectTypical ==
    {[kind |-> "resp", status |-> 200, marker |-> FALSE, write |-> "ok"],
     [kind |-> "resp", status |-> 403, marker |-> FALSE, write |-> "ok"]}

SeleniumTypical ==
    {[launch |-> "ok", cookies |-> "ok", get |-> "ok", appears |-> 1, rename |-> "ok",
      url |-> UrlPdf, refetch |-> "other", write |-> "ok"],
     [launch |-> "ok", cookies |-> "ok", get |-> "ok", appears |-> 0, rename |-> "ok",
      url |-> UrlLanding, refetch |-> "other", write |-> "ok"]}

NoEntry ==
    [title |-> None, doi |-> None, pdf_url |-> None, downloaded |-> FALSE,
     fail_reason |-> None]

\* the resolver strategies, in the order of main()
Strategies ==
    <<"unpaywall", "semanticscholar", "arxiv_biorxiv", "publisher_plain",
      "publisher_browser", "landing_browser">>

\* the functions that open browser sessions
BrowserFunctions ==
    {"get_pdf_link_from_publisher_page", "scrape_pdf_with_selenium",
     "download_pdf_selenium"}

NoSessions == [f \in BrowserFunctions |-> 0]

\* the browser sessions alive: opened by any function and not quit
Alive(l) ==
    l["get_pdf_link_from_publisher_page"] + l["scrape_pdf_with_selenium"]
        + l["download_pdf_selenium"]

Max(a, b) == IF a > b THEN a ELSE b

Min(a, b) == IF a < b THEN a ELSE b

NoDownload ==
    [called |-> FALSE, status |-> 0, direct |-> 0, selenium |-> 0, kind |-> "none",
     marker |-> FALSE, write |-> "ok", wrote |-> FALSE, success |-> FALSE, polls |-> 0]

\* Query_cited_articles.py before a query: no list retrieved yet
QueryIdle ==
    [pc |-> "idle", max_results |-> 0, citing |-> <<>>, offset |-> 0, retries |-> 0,
     semantic |-> <<>>, serpapi |-> <<>>, combined |-> <<>>]

VARIABLES
    query,      \* Query_cited_articles.py: where it is, max_results, the list a
                \* retrieval loop is building, the lists returned, the merged list
    scope,      \* the input space of this behaviour, see Inputs
    pc,         \* where main() is: idle, the statement it is at, done, raised, crashed
    run,        \* number of starts of main() so far
    n,          \* len(citing_articles) of this run
    idx,        \* index of the loop of main()
    article,    \* the record the loop is at
    doi,        \* main's doi
    log_key,    \* main's log_key
    pdf_url,    \* main's pdf_url
    log_entry,  \* main's log_entry
    log_dict,   \* main's log_dict
    file,       \* download_log.json
    live,       \* per function: browser sessions it opened and did not quit
    peak,       \* the most browser sessions alive at once since the loop took
                \* the record at hand
    calls,      \* the strategies invoked for this item, in order, with their results
    net,        \* network requests made for this item
    brw,        \* browser launches and operations made for this item
    dl,         \* the download_pdf call of this item: the answer of the direct
                \* transfer, the transfers and fallbacks made, the result
    outcome,    \* how the last item ended: none, skip, recorded
    raisedIn,   \* the function whose exception left main(), or none
    completed,  \* the entries of the items whose processing completed, by key
    total       \* records read so far, all runs together

vars ==
    <<query, scope, pc, run, n, idx, article, doi, log_key, pdf_url, log_entry, log_dict, file, live,
      peak, calls, net, brw, dl, outcome, raisedIn, completed, total>>

\* the locals of one iteration of the loop
item == <<article, doi, log_key, pdf_url, log_entry, calls, net, brw, dl>>

\* The inputs of an action.  A behaviour of scope "record" is one run of
\* main() over one record, with every outcome of every external call; a
\* behaviour of scope "ledger" is several runs over several records, with
\* the typical outcomes of each call: the ones that decide what the ledger
\* holds.
Inputs(every, typical) == IF scope = "record" THEN every ELSE typical

Init ==
    /\ query = QueryIdle
    /\ scope \in {"record", "ledger"}
    /\ pc = "idle"
    /\ run = 0
    /\ n = 0
    /\ idx = 0
    /\ article = NoArticle
    /\ doi = None
    /\ log_key = None
    /\ pdf_url = None
    /\ log_entry = NoEntry
    /\ log_dict = <<>>
    /\ file \in Inputs({FileMissing}, ForeignFiles)
    /\ live = NoSessions
    /\ peak = 0
    /\ calls = <<>>
    /\ net = 0
    /\ brw = 0
    /\ dl = NoDownload
    /\ outcome = "none"
    /\ raisedIn = "none"
    /\ completed = <<>>
    /\ total = 0

ResetItem ==
    /\ article' = NoArticle
    /\ doi' = None
    /\ log_key' = None
    /\ pdf_url' = None
    /\ log_entry' = NoEntry
    /\ calls' = <<>>
    /\ net' = 0
    /\ brw' = 0
    /\ dl' = NoDownload

\* an exception of function f leaves main()
Raise(f) ==
    /\ pc' = "raised"
    /\ raisedIn' = f

\* main(), up to the loop: read the input, load the ledger.
Start ==
    /\ pc \in {"idle", "done", "raised", "crashed"}
    /\ run < Inputs(1, MaxRuns)
    /\ run' = run + 1
    /\ \E k \in 0..Inputs(1, MaxArticles - total) : n' = k
    /\ idx' = 0
    /\ ResetItem
    /\ live' = NoSessions
    /\ peak' = 0
    /\ outcome' = "none"
    /\ LET r == load_download_log_dict(file)
       IN  IF r.raised
           THEN /\ Raise("load_download_log_dict")
                /\ log_dict' = <<>>
           ELSE /\ pc' = "loop"
                /\ raisedIn' = "none"
                /\ log_dict' = r.dict
    /\ UNCHANGED <<query, scope, file, completed, total>>

\* the head of the loop: the next record, its DOI (the record's, or looked
\* up at CrossRef), the ledger key, and the skip of a downloaded identity
NextArticle ==
    /\ pc = "loop"
    /\ idx < n
    /\ \E a \in Inputs(Articles, ArticlesTypical) :
       \E resp \in (IF Truthy(a.doi) THEN {[status |-> "error", items |-> <<>>]}
                    ELSE Inputs(CrossrefResponses, CrossrefTypical)) :
          LET c == IF Truthy(a.doi)
                   THEN [raised |-> FALSE, value |-> None, net |-> 0]
                   ELSE get_doi_from_crossref(a.title, a.authors, resp)
              d == Or(a.doi, c.value)
              k == Or(d, a.title)
          IN  /\ article' = a
              /\ net' = c.net
              /\ brw' = 0
              /\ calls' = <<>>
              /\ dl' = NoDownload
              /\ pdf_url' = None
              /\ log_entry' = NoEntry
              /\ IF c.raised
                 THEN /\ Raise("get_doi_from_crossref")
                      /\ UNCHANGED <<doi, log_key, idx, outcome>>
                 ELSE /\ doi' = d
                      /\ log_key' = k
                      /\ raisedIn' = raisedIn
                      /\ IF AlreadyDownloaded(log_dict, k)
                         THEN /\ pc' = "loop"
                              /\ idx' = idx + 1
                              /\ outcome' = "skip"
                         ELSE /\ pc' = "unpaywall"
                              /\ UNCHANGED <<idx, outcome>>
    /\ total' = total + 1
    /\ peak' = Alive(live)
    /\ UNCHANGED <<query, scope, run, n, log_dict, file, live, completed>>

\* the loop is exhausted
Finish ==
    /\ pc = "loop"
    /\ idx = n
    /\ pc' = "done"
    /\ UNCHANGED <<query, scope, run, n, idx, item, log_dict, file, live, peak, outcome, raisedIn,
                   completed, total>>

\* "if x": the strategy is tried although an earlier one gave a URL
ShouldTry_ignoring_pdf_url(url, x) == Truthy(x)

\* "if not pdf_url and x": a strategy is tried while no URL is known
ShouldTry(url, x) == ~Truthy(url) /\ Truthy(x)

\* the anchor from which a scrape of a page takes its result, None when the
\* page has no PDF-like anchor
Anchor(hrefs) == IF FirstPdfHref(hrefs) = 0 THEN None ELSE hrefs[FirstPdfHref(hrefs)]

\* the call of a strategy: whether it returned a non-empty value and, for a
\* result that a scrape took from an anchor, that anchor, the location of
\* the page that was fetched and the value returned
Scraped(name, value, href, page) ==
    [name |-> name, found |-> Truthy(value), href |-> href,
     page |-> IF href = None THEN None ELSE page,
     value |-> IF href = None THEN None ELSE value]

Called(name, value) == Append(calls, Scraped(name, value, None, None))

\* "if not doi": the guard of the first strategy, inverted
HasDoi_inverted(d) == ~Truthy(d)

\* "if doi": the guard of the first strategy
HasDoi(d) == Truthy(d)

\* if doi: pdf_url = get_pdf_link_from_unpaywall(doi)
Unpaywall ==
    /\ pc = "unpaywall"
    /\ pc' = "semanticscholar"
    /\ IF HasDoi(doi)
       THEN \E resp \in Inputs(UnpaywallResponses, UnpaywallTypical) :
               LET r == get_pdf_link_from_unpaywall(doi, resp)
               IN  /\ pdf_url' = r.value
                   /\ calls' = Called("unpaywall", r.value)
                   /\ net' = net + r.net
       ELSE UNCHANGED <<pdf_url, calls, net>>
    /\ UNCHANGED <<query, scope, run, n, idx, article, doi, log_key, log_entry, log_dict, file, live, peak,
                   brw, dl, outcome, raisedIn, completed, total>>

\* if not pdf_url and semantic_url: ...
SemanticScholar ==
    /\ pc = "semanticscholar"
    /\ pc' = "arxiv_biorxiv"
    /\ IF ShouldTry(pdf_url, article.url)
       THEN \E resp \in Inputs(PageResponses, PageTypical) :
               \* the page fetched is the one at semantic_url (no redirect)
               LET r == get_pdf_link_from_semanticscholar(article.url, resp)
                   fetched == r.net = 1 /\ resp.status = "ok"
               IN  /\ pdf_url' = r.value
                   /\ calls' = Append(calls,
                                      Scraped("semanticscholar", r.value,
                                              IF fetched THEN Anchor(resp.hrefs) ELSE None,
                                              IF fetched THEN article.url ELSE None))
                   /\ net' = net + r.net
       ELSE UNCHANGED <<pdf_url, calls, net>>
    /\ UNCHANGED <<query, scope, run, n, idx, article, doi, log_key, log_entry, log_dict, file, live, peak,
                   brw, dl, outcome, raisedIn, completed, total>>

\* if not pdf_url: pdf_url = get_pdf_link_from_arxiv_biorxiv(article)
ArxivBiorxiv ==
    /\ pc = "arxiv_biorxiv"
    /\ IF ~Truthy(pdf_url)
       THEN \E resp1 \in Inputs(CrossrefResponses, CrossrefTypical),
               resp2 \in Inputs(CrossrefResponses, CrossrefTypical) :
               LET r == get_pdf_link_from_arxiv_biorxiv(article, resp1, resp2)
               IN  /\ calls' = Called("arxiv_biorxiv", r.value)
                   /\ net' = net + r.net
                   /\ IF r.raised
                      THEN /\ Raise("get_pdf_link_from_arxiv_biorxiv")
                           /\ UNCHANGED pdf_url
                      ELSE /\ pc' = "publisher"
                           /\ pdf_url' = r.value
                           /\ UNCHANGED raisedIn
       ELSE /\ pc' = "publisher"
            /\ UNCHANGED <<pdf_url, calls, net, raisedIn>>
    /\ UNCHANGED <<query, scope, run, n, idx, article, doi, log_key, log_entry, log_dict, file, live, peak,
                   brw, dl, outcome, completed, total>>

\* if not pdf_url and doi: pdf_url = get_pdf_link_from_publisher_page(doi)
PublisherPage ==
    /\ pc = "publisher"
    /\ pc' = "landing"
    /\ IF ShouldTry(pdf_url, doi)
       THEN \E resp \in Inputs(PageResponses, PageTypical) :
            \E br \in (IF PublisherPlainScrape(resp) # None
                       THEN {NoBrowser}
                       ELSE Inputs(BrowserOutcomes, BrowserTypical)) :
               LET r == get_pdf_link_from_publisher_page(doi, resp, br)
                   f == "get_pdf_link_from_publisher_page"
               IN  /\ pdf_url' = r.value
                   /\ calls' = IF r.browser
                               THEN Append(Called("publisher_plain", None),
                                           Scraped("publisher_browser", r.value,
                                                   IF r.brw = 3 THEN Anchor(br.hrefs)
                                                   ELSE None,
                                                   br.url))
                               ELSE Append(calls,
                                           Scraped("publisher_plain", r.value,
                                                   Anchor(resp.hrefs), resp.url))
                   /\ net' = net + r.net
                   /\ brw' = brw + r.brw
                   /\ live' = [live EXCEPT ![f] = @ + r.opened - r.quitted]
                   /\ peak' = Max(peak, Alive(live) + Min(r.opened, 1))
       ELSE UNCHANGED <<pdf_url, calls, net, brw, live, peak>>
    /\ UNCHANGED <<query, scope, run, n, idx, article, doi, log_key, log_entry, log_dict, file, dl,
                   outcome, raisedIn, completed, total>>

\* if not pdf_url and pub_url: pdf_url = scrape_pdf_with_selenium(pub_url, title[:50])
LandingPage ==
    /\ pc = "landing"
    /\ pc' = "acquire"
    /\ IF ShouldTry(pdf_url, article.pub_url)
       THEN \E o \in Inputs(ScrapeOutcomes, ScrapeTypical) :
               LET r == scrape_pdf_with_selenium(article.pub_url,
                                                 Prefix(article.title, 50), o)
                   f == "scrape_pdf_with_selenium"
               IN  /\ pdf_url' = r.value
                   /\ calls' = Called("landing_browser", r.value)
                   /\ brw' = brw + r.brw
                   /\ live' = [live EXCEPT ![f] = @ + r.opened - r.quitted]
                   /\ peak' = Max(peak, Alive(live) + Min(r.opened, 1))
       ELSE UNCHANGED <<pdf_url, calls, brw, live, peak>>
    /\ UNCHANGED <<query, scope, run, n, idx, article, doi, log_key, log_entry, log_dict, file, net, dl,
                   outcome, raisedIn, completed, total>>


\* title.split(): the parts of title between runs of spaces
SplitWhitespace(title) ==
    LET parts == Split(title, <<" ">>)
    IN  SelectSeq(parts, LAMBDA p : p # <<>>)

\* "_".join(title.split())[:100]
safe_title(title) == Prefix(Join(SplitWhitespace(title), <<"_">>), 100)

\* os.path.join(PDF_DIR, f"{safe_title}.pdf")
Filename(title) == <<"p", "d", "f", "s", "/">> \o safe_title(title) \o DOT_PDF

\* download_pdf_selenium is reached with this answer of the direct transfer
NeedsSelenium(r) == Blocked(r) \/ DirectError(r, [raised |-> FALSE]) # None


\* The rest of the loop body up to log_dict[log_key] = log_entry: the
\* download of a URL that starts with "http", or the entry of "no PDF".
Acquire ==
    /\ pc = "acquire"
    /\ IF Truthy(pdf_url) /\ StartsWith(pdf_url, HTTP)
       THEN \E r \in Inputs(DirectResponses, DirectTypical) :
            \E s1 \in (IF NeedsSelenium(r)
                       THEN Inputs(SeleniumOutcomes, SeleniumTypical) ELSE {NotCalled}) :
            \E s2 \in (IF Blocked(r) /\ s1.launch = "raise"
                       THEN Inputs(SeleniumOutcomes, SeleniumTypical) ELSE {NotCalled}) :
               LET d == download_pdf(pdf_url, Filename(article.title), r, s1, s2)
                   e == [title |-> article.title, doi |-> doi, pdf_url |-> pdf_url,
                         downloaded |-> d.success, fail_reason |-> d.reason]
                   f == "download_pdf_selenium"
               IN  /\ dl' = [called |-> TRUE, status |-> d.status, direct |-> d.direct,
                             selenium |-> d.selenium, kind |-> r.kind,
                             marker |-> r.marker, write |-> r.write, wrote |-> d.wrote,
                             success |-> d.success /\ ~d.raised, polls |-> d.polls]
                   /\ net' = net + d.net
                   /\ brw' = brw + d.selenium
                   /\ live' = [live EXCEPT ![f] = @ + d.opened - d.quitted]
                   /\ peak' = Max(peak, Alive(live) + Min(d.opened, 1))
                   /\ IF d.raised
                      THEN /\ Raise("download_pdf_selenium")
                           /\ UNCHANGED <<log_entry, log_dict>>
                      ELSE /\ pc' = "save_open"
                           /\ log_entry' = e
                           /\ log_dict' = DictSet(log_dict, log_key, e)
                           /\ UNCHANGED raisedIn
       ELSE LET e == [title |-> article.title, doi |-> doi, pdf_url |-> None,
                      downloaded |-> FALSE, fail_reason |-> NO_PDF_REASON]
            IN  /\ pc' = "save_open"
                /\ log_entry' = e
                /\ log_dict' = DictSet(log_dict, log_key, e)
                /\ UNCHANGED <<dl, net, brw, live, peak, raisedIn>>
    /\ UNCHANGED <<query, scope, run, n, idx, article, doi, log_key, pdf_url, file, calls, outcome,
                   completed, total>>

\* save_download_log_dict, open(log_path, "w"): it raises and leaves the
\* file as it was, or it truncates the file.
SaveOpen ==
    /\ pc = "save_open"
    /\ \E opened \in BOOLEAN :
          IF opened
          THEN /\ pc' = "save_dump"
               /\ file' = FileInvalid
               /\ UNCHANGED raisedIn
          ELSE /\ Raise("save_download_log_dict")
               /\ UNCHANGED file
    /\ UNCHANGED <<query, scope, run, n, idx, item, log_dict, live, peak, outcome, completed, total>>

\* save_download_log_dict, json.dump and the close of the file: the list of
\* the entries is written, or the write raises and leaves a partial file.
SaveDump ==
    /\ pc = "save_dump"
    /\ \E written \in BOOLEAN :
          IF written
          THEN /\ pc' = "sleep"
               /\ file' = FileOf(DictValues(log_dict))
               /\ UNCHANGED raisedIn
          ELSE /\ Raise("save_download_log_dict")
               /\ UNCHANGED file
    /\ UNCHANGED <<query, scope, run, n, idx, item, log_dict, live, peak, outcome, completed, total>>

\* time.sleep(1), the end of the loop body
Sleep ==
    /\ pc = "sleep"
    /\ pc' = "loop"
    /\ idx' = idx + 1
    /\ outcome' = "recorded"
    /\ completed' = DictSet(completed, log_key, log_entry)
    /\ UNCHANGED <<query, scope, run, n, item, log_dict, file, live, peak, raisedIn, total>>

\* where main() is while it runs
Running ==
    {"loop", "unpaywall", "semanticscholar", "arxiv_biorxiv", "publisher", "landing",
     "acquire", "save_open", "save_dump", "sleep"}

\* The process is killed (or the machine stops) while main() runs: what is
\* in memory is lost, the ledger file stays as it is.
Crash ==
    /\ pc \in Running
    /\ pc' = "crashed"
    /\ ResetItem
    /\ log_dict' = <<>>
    /\ UNCHANGED <<query, scope, run, n, idx, file, live, peak, outcome, raisedIn, completed, total>>

Next ==
    \/ Start
    \/ NextArticle
    \/ Finish
    \/ Unpaywall
    \/ SemanticScholar
    \/ ArxivBiorxiv
    \/ PublisherPage
    \/ LandingPage
    \/ Acquire
    \/ SaveOpen
    \/ SaveDump
    \/ Sleep
    \/ Crash

Spec == Init /\ [][Next]_vars


\* ------------------------------------------- Query_cited_articles.py

\* limit = 100 of get_semantic_scholar_citations
S2_LIMIT == 100
\* "num": 20 of get_serpapi_citations
SERP_NUM == 20

\* the sequences over S of length at most k
SeqsUpTo(S, k) == UNION {[1..m -> S] : m \in 0..k}

\* A citing article as the retrieval loops build it.  Of its keys the model
\* keeps bib.title, pub_url, google_scholar_cites_id (Absent in an article
\* from Semantic Scholar, which has no such key) and data_sources.
QItem(t, u, c) == [title |-> t, pub_url |-> u, cites_id |-> c, data_sources |-> <<>>]

TitlePunct == <<"!">>
CitesId == <<"7">>

\* citing articles as Semantic Scholar lists them: with and without URL,
\* with a null title
SemanticItems ==
    {QItem(TitleA, None, Absent), QItem(TitleC, UrlLanding, Absent),
     QItem(None, None, Absent)}

\* citing articles as SerpApi lists them: a title that differs from one of
\* Semantic Scholar in case and punctuation only, one that is equal, one
\* without letters or digits
SerpItems ==
    {QItem(TitleB, UrlPublisher, CitesId), QItem(TitleC, UrlPublisher, None),
     QItem(TitlePunct, None, None)}

\* The answers to a page request of get_semantic_scholar_citations that asked
\* for limit articles: a page of at most limit articles with or without a
\* "next" offset, HTTP 429, another HTTP error, a network fault.
SemanticAnswers(limit) ==
    {[kind |-> "ok", data |-> d, next |-> nx] :
        d \in SeqsUpTo(SemanticItems, Min(limit, MaxPageLen)), nx \in BOOLEAN}
    \cup {[kind |-> k, data |-> <<>>, next |-> FALSE] :
            k \in {"429", "http_error", "network_error"}}

\* The answers to a page request of get_serpapi_citations: a page of at most
\* SERP_NUM results with or without serpapi_pagination.next, an HTTP error,
\* a network fault.
SerpAnswers ==
    {[kind |-> "ok", data |-> d, next |-> nx] :
        d \in SeqsUpTo(SerpItems, Min(SERP_NUM, MaxPageLen)), nx \in BOOLEAN}
    \cup {[kind |-> k, data |-> <<>>, next |-> FALSE] :
            k \in {"http_error", "network_error"}}

\* the first loop of combine_and_deduplicate_results
RECURSIVE AddSemantic(_, _)
AddSemantic(combined, list) ==
    IF list = <<>> THEN combined
    ELSE LET a == Head(list)
             norm_title == normalize_title(a.title)
         IN  AddSemantic(IF norm_title = Empty THEN combined
                         ELSE DictSet(combined, norm_title,
                                      [a EXCEPT !.data_sources = <<"semantic_scholar">>]),
                         Tail(list))

\* "for key, value in article.items()": a key of the article from SerpApi is
\* copied when the combined article lacks it or has a falsy value for it
MergeInto(old, a) ==
    [old EXCEPT !.data_sources = Append(@, "google_scholar_serpapi"),
                !.pub_url = IF Truthy(@) THEN @ ELSE a.pub_url,
                !.cites_id = IF @ # Absent /\ Truthy(@) THEN @ ELSE a.cites_id]

\* the second loop without "if not norm_title: continue"
RECURSIVE AddSerpapi_keeps_untitled(_, _)
AddSerpapi_keeps_untitled(combined, list) ==
    IF list = <<>> THEN combined
    ELSE LET a == Head(list)
             norm_title == normalize_title(a.title)
         IN  AddSerpapi_keeps_untitled(
                 IF DictHas(combined, norm_title)
                 THEN DictSet(combined, norm_title,
                              MergeInto(combined[DictIndex(combined, norm_title)].value, a))
                 ELSE DictSet(combined, norm_title,
                              [a EXCEPT !.data_sources = <<"google_scholar_serpapi">>]),
                 Tail(list))

\* the second loop of combine_and_deduplicate_results
RECURSIVE AddSerpapi(_, _)
AddSerpapi(combined, list) ==
    IF list = <<>> THEN combined
    ELSE LET a == Head(list)
             norm_title == normalize_title(a.title)
         IN  AddSerpapi(
                 IF norm_title = Empty THEN combined
                 ELSE IF DictHas(combined, norm_title)
                 THEN DictSet(combined, norm_title,
                              MergeInto(combined[DictIndex(combined, norm_title)].value, a))
                 ELSE DictSet(combined, norm_title,
                              [a EXCEPT !.data_sources = <<"google_scholar_serpapi">>]),
                 Tail(list))

combine_and_deduplicate_results(semantic_list, serpapi_list) ==
    DictValues(AddSerpapi(AddSemantic(<<>>, semantic_list), serpapi_list))

\* the variables of download_citation_pdfs.py
mainVars ==
    <<scope, pc, run, n, idx, article, doi, log_key, pdf_url, log_entry, log_dict, file, live,
      peak, calls, net, brw, dl, outcome, raisedIn, completed, total>>

\* get_semantic_scholar_citations up to its loop: without a paper id it
\* returns [].
SemanticBegin ==
    /\ query.pc = "idle"
    /\ \E m \in 0..MaxResults, paper_id \in BOOLEAN :
          query' = IF paper_id
                   THEN [QueryIdle EXCEPT !.pc = "semantic", !.max_results = m]
                   ELSE [QueryIdle EXCEPT !.pc = "serpapi_begin", !.max_results = m]
    /\ UNCHANGED mainVars

\* One test of the loop condition of get_semantic_scholar_citations and, when
\* it holds, one iteration: an empty page, a page without "next" and every
\* error but 429 end the loop, 429 repeats the request.
SemanticPage ==
    /\ query.pc = "semantic"
    /\ IF Len(query.citing) < query.max_results
       THEN \E r \in SemanticAnswers(Min(S2_LIMIT, query.max_results - Len(query.citing))) :
               /\ r.kind = "429" => query.retries < MaxRetries
               /\ query' =
                    IF r.kind = "429"
                    THEN [query EXCEPT !.retries = @ + 1]
                    ELSE IF r.kind = "ok" /\ r.data # <<>> /\ r.next
                    THEN [query EXCEPT !.citing = @ \o r.data,
                                       !.offset = @ + Len(r.data)]
                    ELSE [query EXCEPT !.pc = "serpapi_begin",
                                       !.semantic = query.citing \o r.data,
                                       !.citing = <<>>, !.offset = 0, !.retries = 0]
       ELSE query' = [query EXCEPT !.pc = "serpapi_begin", !.semantic = query.citing,
                                   !.citing = <<>>, !.offset = 0, !.retries = 0]
    /\ UNCHANGED mainVars

\* get_serpapi_citations up to its loop: without a cites id it returns [].
SerpapiBegin ==
    /\ query.pc = "serpapi_begin"
    /\ \E cites_id \in BOOLEAN :
          query' = [query EXCEPT !.pc = IF cites_id THEN "serpapi" ELSE "combine"]
    /\ UNCHANGED mainVars

\* One test of the loop condition of get_serpapi_citations and, when it
\* holds, one iteration: every result of the page is appended.
SerpapiPage ==
    /\ query.pc = "serpapi"
    /\ IF Len(query.citing) < query.max_results
       THEN \E r \in SerpAnswers :
               query' =
                    IF r.kind = "ok" /\ r.data # <<>> /\ r.next
                    THEN [query EXCEPT !.citing = @ \o r.data, !.offset = @ + SERP_NUM]
                    ELSE [query EXCEPT !.pc = "combine",
                                       !.serpapi = query.citing \o r.data,
                                       !.citing = <<>>, !.offset = 0]
       ELSE query' = [query EXCEPT !.pc = "combine", !.serpapi = query.citing,
                                   !.citing = <<>>, !.offset = 0]
    /\ UNCHANGED mainVars

\* final_citations = combine_and_deduplicate_results(...)
Combine ==
    /\ query.pc = "combine"
    /\ query' = [query EXCEPT
                    !.pc = "done",
                    !.combined = combine_and_deduplicate_results(query.semantic,
                                                                 query.serpapi)]
    /\ UNCHANGED mainVars

QueryNext ==
    \/ SemanticBegin
    \/ SemanticPage
    \/ SerpapiBegin
    \/ SerpapiPage
    \/ Combine

QueryInit == Init /\ scope = "record"

QuerySpec == QueryInit /\ [][QueryNext]_vars


\* ------------------------------------------------------------------ claims

\* where main() is while the record at hand is being resolved and acquired,
\* before its entry is put into log_dict
Resolving ==
    {"unpaywall", "semanticscholar", "arxiv_biorxiv", "publisher", "landing", "acquire"}

\* C1: a record whose identity the ledger shows as downloaded is skipped
\* without any network request and without any browser operation, the DOI
\* lookup that computes the identity included.
C1_SkipMakesNoRequest ==
    (pc = "loop" /\ outcome = "skip") => (net = 0 /\ brw = 0)

\* C2: the ledger key of a record without DOI is its normalized title, so a
\* record without DOI has the key of every ledger entry without DOI whose
\* title has the same normalized form.
C2_NormalizedTitleKey ==
    (pc \in Resolving /\ ~Truthy(doi)) =>
        \A i \in 1..Len(log_dict) :
            (/\ ~Truthy(log_dict[i].value.doi)
             /\ normalize_title(log_dict[i].value.title) = normalize_title(article.title))
            => log_dict[i].key = log_key

\* the place of a strategy in the order of main()
Rank(name) == CHOOSE i \in 1..Len(Strategies) : Strategies[i] = name

\* C3: the strategies invoked for an item are invoked in the fixed order,
\* each at most once, and none after a strategy that returned a non-empty
\* URL.
C3_StrategyOrder ==
    \A i \in 1..Len(calls) : \A j \in 1..Len(calls) :
        i < j => (Rank(calls[i].name) < Rank(calls[j].name) /\ ~calls[i].found)

\* all six strategies were invoked, and the last one returned a URL
C3_Witness ==
    /\ pc = "acquire"
    /\ Len(calls) = Len(Strategies)
    /\ calls[Len(calls)].found

\* C4: a direct transfer answered with 403 is followed by exactly one call
\* of download_pdf_selenium and by no further direct transfer of
\* download_pdf.
C4_OneFallbackOn403 ==
    (dl.called /\ dl.status = 403) => (dl.selenium = 1 /\ dl.direct = 1)

\* C5: no exception leaves main() while it processes the items.
C5_NoExceptionLeavesMain == pc # "raised"

\* C6: when download_pdf_selenium has returned or raised, every browser
\* session it opened is terminated.
C6_SeleniumSessionClosed == live["download_pdf_selenium"] = 0

\* a blocked transfer whose browser session raised after it was opened
C6_Witness ==
    /\ pc = "save_open"
    /\ dl.selenium = 1
    /\ log_entry.fail_reason = WEBDRIVER_ERROR

\* C7: when a browser-based resolver strategy has returned, every browser
\* session it opened is terminated.
C7_ResolverSessionsClosed ==
    /\ live["get_pdf_link_from_publisher_page"] = 0
    /\ live["scrape_pdf_with_selenium"] = 0

\* the ledger that a restart would load from the file as it is now
Reloaded == load_download_log_dict(file).dict

\* C8: after a crash at any point of a run, the ledger that a restart loads
\* holds the entry of every item whose processing had completed.
C8_CrashLosesOnlyInFlight ==
    pc = "crashed" =>
        \A i \in 1..Len(completed) :
            /\ DictHas(Reloaded, completed[i].key)
            /\ Reloaded[DictIndex(Reloaded, completed[i].key)].value = completed[i].value

\* C9: a failure of save_download_log_dict does not end the run.
C9_SaveFailureDoesNotAbort == ~(pc = "raised" /\ raisedIn = "save_download_log_dict")

C11_DelayBetweenItems ==
    [][(idx' = idx + 1 /\ idx' < n) => pc = "sleep"]_vars

\* C12: when the body of the direct transfer can be written, download_pdf
\* writes it and reports success without a browser if and only if the
\* answer has a 2xx status and no challenge marker; every other answer and
\* every network fault leads to the browser fallback.
C12_DirectClassification ==
    (dl.called /\ dl.write = "ok") =>
        /\ (dl.wrote /\ dl.success /\ dl.selenium = 0)
              <=> (dl.kind = "resp" /\ dl.status \in 200..299 /\ ~dl.marker)
        /\ ~(dl.kind = "resp" /\ dl.status \in 200..299 /\ ~dl.marker)
              => dl.selenium >= 1

\* the strategies that main() has to try for the record at hand while no
\* URL is known
Applicable ==
    {"arxiv_biorxiv"}
    \cup (IF Truthy(doi) THEN {"unpaywall", "publisher_plain", "publisher_browser"} ELSE {})
    \cup (IF Truthy(article.url) THEN {"semanticscholar"} ELSE {})
    \cup (IF Truthy(article.pub_url) THEN {"landing_browser"} ELSE {})

\* the entry of the item says that no link was found
NoLinkFound ==
    /\ log_entry.pdf_url = None
    /\ ~log_entry.downloaded
    /\ log_entry.fail_reason = NO_PDF_REASON

\* C13: an item is recorded as NoLinkFound if and only if no strategy
\* returned a non-empty value for it, and then every strategy applicable to
\* the record was attempted.
C13_NoLinkIffNoStrategySucceeded ==
    pc = "save_open" =>
        /\ NoLinkFound <=> (\A i \in 1..Len(calls) : ~calls[i].found)
        /\ NoLinkFound => \A st \in Applicable : \E i \in 1..Len(calls) : calls[i].name = st

\* the file that holds the PDF of a downloaded entry: main() derives the
\* destination path from the title alone
Destination(entry) == Filename(entry.title)

\* C14: after a run, two ledger entries with different identities that both
\* have downloaded = true do not have the same destination path.
C14_DistinctDestinations ==
    pc = "done" =>
        \A i \in 1..Len(log_dict) : \A j \in 1..Len(log_dict) :
            (/\ log_dict[i].key # log_dict[j].key
             /\ log_dict[i].value.downloaded
             /\ log_dict[j].value.downloaded)
            => Destination(log_dict[i].value) # Destination(log_dict[j].value)

\* main() makes entry from record a: the title is the record's, the DOI is
\* the record's when it carries one and the result of the lookup otherwise
MadeFrom(a, entry) ==
    /\ entry.title = a.title
    /\ Truthy(a.doi) => entry.doi = a.doi

\* two entries of the same work: some record of the input gives both
SameWork(e1, e2) ==
    \E a \in Inputs(Articles, ArticlesTypical) : MadeFrom(a, e1) /\ MadeFrom(a, e2)

\* C15: the ledger never holds two entries of the same work, also when the
\* DOI lookup of a record ends differently from one attempt to the next.
C15_OneEntryPerWork ==
    \A i \in 1..Len(log_dict) : \A j \in 1..Len(log_dict) :
        i # j => ~SameWork(log_dict[i].value, log_dict[j].value)

\* C16: a scrape that takes its result from a host-relative anchor returns
\* the scheme and host of the page that was fetched, followed by the href.
C16_HostRelativeAnchor ==
    \A i \in 1..Len(calls) :
        (calls[i].href # None /\ StartsWith(calls[i].href, SLASH))
        => calls[i].value = SchemeAndHost(calls[i].page) \o calls[i].href

\* C17: when a browser launch or operation has been made for an item with a
\* DOI, the open-access lookup was the first strategy attempted for it.
C17_UnpaywallBeforeBrowser ==
    (Truthy(doi) /\ brw > 0) => (calls # <<>> /\ calls[1].name = "unpaywall")

\* a record that carries a DOI went through the lookup, then through a
\* browser strategy and the browser fallback of the download
C17_Witness ==
    /\ pc = "save_open"
    /\ Truthy(article.doi)
    /\ calls[1].name = "unpaywall"
    /\ \E i \in 1..Len(calls) : calls[i].name = "landing_browser"
    /\ dl.selenium > 0

\* where main() is while it processes the record at hand
InItem == Running \ {"loop"}

\* the work done for one item is bounded: at most one direct transfer, at
\* most two browser fallbacks of at most POLL_LIMIT polls each, every
\* strategy at most once; and a direct transfer that timed out is a
\* failure of that step
BoundedItem ==
    /\ dl.direct <= 1
    /\ dl.selenium <= 2
    /\ dl.polls <= dl.selenium * POLL_LIMIT
    /\ \A i \in 1..Len(calls) : \A j \in 1..Len(calls) :
           calls[i].name = calls[j].name => i = j
    /\ (dl.called /\ dl.kind = "raise") => (~dl.wrote /\ dl.selenium >= 1)

\* how far main() is in the loop body; the loop head and the ends of a run
\* come last
Position(at) ==
    CASE at = "unpaywall" -> 1
      [] at = "semanticscholar" -> 2
      [] at = "arxiv_biorxiv" -> 3
      [] at = "publisher" -> 4
      [] at = "landing" -> 5
      [] at = "acquire" -> 6
      [] at = "save_open" -> 7
      [] at = "save_dump" -> 8
      [] at = "sleep" -> 9
      [] OTHER -> 10

\* a step taken while an item is processed moves main() forward
Forward == pc \in InItem => Position(pc') > Position(pc)

\* C18: the processing of an item ends after a bounded number of steps when
\* every external call returns or times out: the work done for it is
\* bounded, and every step taken while an item is processed moves main()
\* forward in the loop body, so that no statement is repeated.  (The only
\* guard of a step of the loop body is the position of main(), and every
\* external call has an outcome.)
C18_ItemTerminates ==
    /\ []BoundedItem
    /\ [][Forward]_vars

\* the download directory was polled POLL_LIMIT times without a file, and
\* the item was recorded as failed
C18_Witness ==
    /\ pc = "loop"
    /\ outcome = "recorded"
    /\ dl.selenium = 1
    /\ dl.polls = POLL_LIMIT
    /\ ~log_entry.downloaded

\* C19: each of the two retrieval functions returns at most max_results
\* citing articles.
C19_AtMostMaxResults ==
    /\ Len(query.semantic) <= query.max_results
    /\ Len(query.serpapi) <= query.max_results

\* the normalized titles of a list of articles, the empty one left out
NormTitles(list) == {normalize_title(list[i].title) : i \in 1..Len(list)} \ {Empty}

\* C20: the merged list has exactly one record for every non-empty
\* normalized title of the two lists, and no other record.
C20_OnePerNormalizedTitle ==
    query.pc = "done" =>
        LET out == query.combined
        IN  /\ \A i \in 1..Len(out) : \A j \in 1..Len(out) :
                  normalize_title(out[i].title) = normalize_title(out[j].title) => i = j
            /\ {normalize_title(out[i].title) : i \in 1..Len(out)}
                  = NormTitles(query.semantic) \cup NormTitles(query.serpapi)

\* both lists hold the same work under titles that differ in case and
\* punctuation, and a record without a usable title was dropped
C20_Witness ==
    /\ query.pc = "done"
    /\ \E i \in 1..Len(query.semantic) : query.semantic[i].title = TitleA
    /\ \E i \in 1..Len(query.serpapi) : query.serpapi[i].title = TitleB
    /\ \E i \in 1..Len(query.serpapi) : query.serpapi[i].title = TitlePunct
    /\ Len(query.combined) = 1

\* the articles of list whose title normalizes as the title of c does
SameTitle(list, c) ==
    {i \in 1..Len(list) : normalize_title(list[i].title) = normalize_title(c.title)}

\* C21: when both sources list a citing article under the same normalized
\* title, the combined article has, for every key that is present and
\* non-empty in both (here bib with its title, and pub_url), the value of the
\* article from SerpApi, the source merged second.
C21_LaterSourceWins ==
    query.pc = "done" =>
        \A k \in 1..Len(query.combined) :
            \A i \in SameTitle(query.semantic, query.combined[k]),
               j \in SameTitle(query.serpapi, query.combined[k]) :
                /\ query.combined[k].title = query.serpapi[j].title
                /\ (Truthy(query.semantic[i].pub_url) /\ Truthy(query.serpapi[j].pub_url))
                      => query.combined[k].pub_url = query.serpapi[j].pub_url

\* a ledger entry whose fields agree with each other
Consistent(entry) ==
    /\ entry.downloaded =>
          /\ entry.fail_reason = None
          /\ entry.pdf_url # None
          /\ StartsWith(entry.pdf_url, HTTP)
    /\ ~entry.downloaded => entry.fail_reason # None
    /\ entry.pdf_url = None <=> entry.fail_reason = NO_PDF_REASON

\* C22: every entry main() writes is consistent: a downloaded entry has no
\* failure reason and a URL that starts with "http", an entry that is not
\* downloaded has a failure reason, and the URL is null exactly in the
\* entries of "no PDF found"; on every path through download_pdf and
\* download_pdf_selenium.
C22_EntryConsistent ==
    /\ pc \in {"save_open", "save_dump", "sleep"} => Consistent(log_entry)
    /\ \A i \in 1..Len(completed) : Consistent(completed[i].value)

\* a direct transfer that ended in an HTTP error, a browser fallback that
\* found no PDF, and the entry written for it
C22_Witness ==
    /\ pc = "save_open"
    /\ dl.called /\ dl.kind = "resp" /\ dl.status = 404 /\ dl.selenium = 1
    /\ ~log_entry.downloaded
    /\ log_entry.fail_reason = HTTP_ERROR \o SELENIUM_SEP \o SELENIUM_NOT_FOUND

\* the persisted ledger holds entry under key
Persisted(key, entry) ==
    DictHas(Reloaded, key) /\ Reloaded[DictIndex(Reloaded, key)].value = entry

\* C23: success is sticky.  A downloaded entry that an item has put into the
\* persisted ledger (the item completed, so its save completed) is in the
\* persisted ledger, unchanged, after every later item and in every later
\* run; only while a save is rewriting the file is it not looked at.
C23_SuccessSticky ==
    pc # "save_dump" =>
        \A i \in 1..Len(completed) :
            completed[i].value.downloaded => Persisted(completed[i].key, completed[i].value)

\* C24: at every point of a run of main() at most one browser session is
\* alive: a session is opened only when every session opened earlier in the
\* run has been quit.
C24_AtMostOneSession == peak <= 1

\* a request of get_semantic_scholar_citations after which the loop goes on
\* has added at least one article to the list
Progresses ==
    (query.pc = "semantic" /\ query'.pc = "semantic")
        => Len(query'.citing) > Len(query.citing)

\* C25: get_semantic_scholar_citations terminates whatever the API answers,
\* HTTP 429 on every request included: the number of its requests is bounded.
\* The loop runs while the list is shorter than max_results, so the requests
\* are at most max_results when each request either ends the loop or makes
\* the list longer.
C25_RequestsBounded == [][Progresses]_vars

=============================================================================
